---- MODULE Spec2Model ----
(***************************************************************************)
(* Habit tracker (src/app.py): the Habit and Checking tables, the four     *)
(* mutation handlers (create_habit, edit_habit, delete_habit, toggle), the *)
(* streak computation and the two weekly aggregations.                     *)
(*                                                                         *)
(* Dates are proleptic ordinals (date.toordinal()); strings that the code  *)
(* strips are sequences of characters; a table is the collection of its    *)
(* rows: Habit rows carry their primary key, Checking rows are a bag of    *)
(* (habit_id, date) records (the surrogate Checking.id is never read by    *)
(* the code, and a bag still tells one row from two equal ones).           *)
(***************************************************************************)
EXTENDS Integers, Sequences, FiniteSets, Bags, TLC

VARIABLES habit,        \* table habit: set of [id, name, color]
          checking,     \* table checking: bag of [habit_id, date]
          today,        \* date.today()
          foreign_keys, \* SQLite PRAGMA foreign_keys of the connection
          inflight,     \* /toggle requests between their SELECT and their commit
          resp          \* the last finished request and its response

vars == <<habit, checking, today, foreign_keys, inflight, resp>>

(* ------------------------------ bounds -------------------------------- *)
MaxHabitId == 2     \* habit ids that requests name and that creation hands out
Epoch == 738000     \* the day before the first date of the model
MaxDate == 2        \* dates run from Epoch + 1 to Epoch + MaxDate
MaxRows == 2        \* Checking rows the table holds
MaxStreakDays == 4  \* the dates of a streak query: Epoch + 1 .. Epoch + MaxStreakDays
MaxWindow == 3      \* window sizes 1..MaxWindow, and the default
DefaultWindow == 7  \* days_window=7

HabitIds == 1..MaxHabitId
Dates == (Epoch + 1)..(Epoch + MaxDate)
\* Two requests are handled at once at most.
Clients == {"c1", "c2"}
Windows == (1..MaxWindow) \cup {DefaultWindow}
StreakDates == (Epoch + 1)..(Epoch + MaxStreakDays)

(* ------------------------------ strings ------------------------------- *)
Space == " "

RECURSIVE lstrip(_)
lstrip(s) == IF s # <<>> /\ Head(s) = Space THEN lstrip(Tail(s)) ELSE s

RECURSIVE rstrip(_)
rstrip(s) == IF s # <<>> /\ s[Len(s)] = Space
             THEN rstrip(SubSeq(s, 1, Len(s) - 1)) ELSE s

\* Faulty variant: the name is taken as typed.
strip_none(s) == s

strip(s) == rstrip(lstrip(s))

DefaultColor == <<"#", "3", "b", "8", "2", "f", "6">>

RawNames == { <<>>, <<" ">>, <<"a">>, <<" ", "a", " ">>, <<"b">>, <<"b", " ">> }
RawColors == { <<" ", "#", "f">> }

(* ------------------------------ requests ------------------------------ *)
\* A form or JSON payload is a function from the keys it holds to their values.
HabitForms ==
    UNION { { f \in [ks -> RawNames \cup RawColors] :
                \A k \in ks : f[k] \in (IF k = "name" THEN RawNames ELSE RawColors) }
            : ks \in SUBSET {"name", "color"} }

\* request.form.get(key, default)
form_get(form, key, default) == IF key \in DOMAIN form THEN form[key] ELSE default

EmptyForm == [k \in {} |-> <<>>]

\* request.form: parsed only from a form-encoded body.
request_form(req) == IF req.is_json THEN EmptyForm ELSE req.body

HabitRequests == [is_json : BOOLEAN, xhr : BOOLEAN, body : HabitForms]

\* Form posts that name a habit and leave the color to its default.
NamingRequests ==
    { req \in HabitRequests :
        /\ ~req.is_json /\ DOMAIN req.body = {"name"}
        /\ req.body["name"] \in { <<" ", "a", " ">>, <<"b">> } }

\* Posts with no body, as /habits/<id>/delete reads none.
BodilessRequests == { req \in HabitRequests : req.body = EmptyForm }

\* Faulty variant: the X-Requested-With header is not looked at.
wants_json_content_type(req) == req.is_json

\* request.is_json or request.headers.get('X-Requested-With') == 'XMLHttpRequest'
wants_json(req) == req.is_json \/ req.xhr

(* ------------------------------ database ------------------------------ *)
\* SQLite rowid of a new row in a table without AUTOINCREMENT.
next_id(ids) == IF ids = {} THEN 1
                ELSE (CHOOSE m \in ids : \A i \in ids : i <= m) + 1

habit_ids == { h.id : h \in habit }

\* Habit.query.get(habit_id)
habit_get(habit_id) == { h \in habit : h.id = habit_id }

\* Faulty variant: the name column without unique=True.
habit_name_any(rows) == TRUE

\* name = db.Column(..., nullable=False, unique=True)
habit_name_unique(rows) ==
    \A h1, h2 \in rows : h1.name = h2.name => h1 = h2

Row(habit_id, d) == [habit_id |-> habit_id, date |-> d]

\* Faulty variant: the table without its UniqueConstraint.
uix_off(rows) == TRUE

\* UniqueConstraint('habit_id', 'date', name='uix_habit_date')
uix_habit_date(rows) == \A r \in BagToSet(rows) : CopiesIn(r, rows) <= 1

\* db.ForeignKey('habit.id', ondelete='CASCADE'), enforced only under
\* PRAGMA foreign_keys = ON.
fk_habit(rows, habits) ==
    foreign_keys => \A r \in BagToSet(rows) : \E h \in habits : h.id = r.habit_id

\* The rows of a bag that satisfy p, with their multiplicities.
BagFilter(rows, keep) ==
    [r \in { x \in BagToSet(rows) : keep[x] } |-> rows[r]]

\* Checking.query.filter_by(habit_id=hid).all()
checking_of(rows, hid) ==
    BagFilter(rows, [r \in BagToSet(rows) |-> r.habit_id = hid])

\* Faulty variant: no cascade, the habit's Checking rows stay.
cascade_keep(rows, hid) == rows

\* cascade='all, delete-orphan' / ondelete='CASCADE': the rows left once the
\* habit's Checking rows are deleted with it.
cascade_delete(rows, hid) ==
    BagFilter(rows, [r \in BagToSet(rows) |-> r.habit_id # hid])

(* ------------------------------ streak -------------------------------- *)
\* Faulty variant: every checked day up to d counts, gaps or not.
streak_loop_total(dates_set, s, d) == s + Cardinality({ x \in dates_set : x <= d })

RECURSIVE streak_loop(_, _, _)
streak_loop(dates_set, s, d) ==
    IF d \in dates_set THEN streak_loop(dates_set, s + 1, d - 1) ELSE s

get_streak_from_dates(dates_set, t) == streak_loop(dates_set, 0, t)

(* ------------------------------ weekly series ------------------------ *)
\* range(n)
range(n) == [k \in 1..n |-> k - 1]

reversed(seq) == [k \in 1..Len(seq) |-> seq[Len(seq) + 1 - k]]

\* Faulty variant: range(days_window) not reversed, the newest day first.
window_days_newest_first(t, days_window) ==
    [k \in 1..days_window |-> t - range(days_window)[k]]

\* [today - timedelta(days=i) for i in reversed(range(days_window))]
window_days(t, days_window) ==
    LET r == reversed(range(days_window)) IN [k \in 1..Len(r) |-> t - r[k]]

\* day.strftime('%a'): ordinal 1 is a Monday.
strftime_a(d) ==
    <<"Mon", "Tue", "Wed", "Thu", "Fri", "Sat", "Sun">>[((d - 1) % 7) + 1]

get_weekly_data_for_habit(habit_id, days_window) ==
    LET days == window_days(today, days_window)
        checkings == BagFilter(checking,
                        [r \in BagToSet(checking) |->
                            r.habit_id = habit_id /\ r.date >= days[1]])
        checking_dates == { c.date : c \in BagToSet(checkings) }
        data == [k \in 1..Len(days) |-> IF days[k] \in checking_dates THEN 1 ELSE 0]
        labels == [k \in 1..Len(days) |-> strftime_a(days[k])]
    IN  [labels |-> labels, data |-> data]

get_weekly_data_all_habits(days_window) ==
    LET days == window_days(today, days_window)
        checkings == BagFilter(checking,
                        [r \in BagToSet(checking) |-> r.date >= days[1]])
        \* one more per row of the date
        daily_counts == [d \in { c.date : c \in BagToSet(checkings) } |->
                            BagCardinality(BagFilter(checkings,
                                [r \in BagToSet(checkings) |-> r.date = d]))]
        data == [k \in 1..Len(days) |->
                    IF days[k] \in DOMAIN daily_counts THEN daily_counts[days[k]]
                                                       ELSE 0]
        labels == [k \in 1..Len(days) |-> strftime_a(days[k])]
    IN  [labels |-> labels, data |-> data]

(* ------------------------------ responses ----------------------------- *)
NoBody == [k \in {} |-> 0]

jsonify(body, status) == [kind |-> "json", status |-> status, body |-> body]
redirect_habits_page == [kind |-> "redirect", status |-> 302, body |-> NoBody]
not_found == [kind |-> "html", status |-> 404, body |-> NoBody]
\* An exception that leaves the view function: Flask answers 500.
unhandled == [kind |-> "html", status |-> 500, body |-> NoBody]

\* What a finished request leaves in resp: the handler, the request's content
\* type, X-Requested-With header and form, the response, the messages it flashed, how its commit ended
\* ("none" when it never committed) and whether the handler called
\* db.session.rollback(). /toggle and delete also leave the row or habit they
\* were about and the checking table they wrote to, and /toggle whether its
\* SELECT found the row and what the request finished just before it was,
\* when that was a /toggle of the same row.
NoneBefore == [op |-> "none"]

Finished(op, req, r, flashes, commit, rollback) ==
    [op |-> op, is_json |-> req.is_json, xhr |-> req.xhr,
     form |-> request_form(req), r |-> r, flashes |-> flashes, commit |-> commit,
     rollback |-> rollback, row |-> NoBody, before |-> EmptyBag,
     existing |-> FALSE, previous |-> NoneBefore]

\* ... of a request for /habits/<habit_id>/...
About(finished, habit_id) == [finished EXCEPT !.row = [habit_id |-> habit_id]]

\* A request with a JSON body and no X-Requested-With header.
JsonRequest == [is_json |-> TRUE, xhr |-> FALSE, body |-> EmptyForm]

Init ==
    /\ habit = {}
    /\ checking = EmptyBag
    /\ today = Epoch + MaxDate
    /\ foreign_keys \in BOOLEAN
    /\ inflight = [c \in Clients |-> [pc |-> "idle"]]
    /\ resp = Finished("none", JsonRequest, not_found, <<>>, "none", FALSE)

\* How db.session.commit() ends: an IntegrityError when the flushed rows break
\* a constraint, another exception when the database fails otherwise (fault),
\* else the rows are stored.
commit_result(habits, rows, fault) ==
    IF ~(habit_name_unique(habits) /\ uix_habit_date(rows) /\ fk_habit(rows, habits))
    THEN "integrity"
    ELSE IF fault THEN "error" ELSE "ok"

(* ------------------------------ handlers ------------------------------ *)
create_habit(req, fault) ==
    LET name == strip(form_get(request_form(req), "name", <<>>))
        color == strip(form_get(request_form(req), "color", DefaultColor))
        new == [id |-> next_id(habit_ids), name |-> name, color |-> color]
        result == commit_result(habit \cup {new}, checking, fault)
        ajax == wants_json(req)
    IN  /\ UNCHANGED <<checking, today, foreign_keys, inflight>>
        /\ IF name = <<>>
           THEN /\ habit' = habit
                /\ resp' = Finished("create", req, redirect_habits_page,
                                    <<"Name is required">>, "none", FALSE)
           ELSE CASE result = "ok" ->
                     /\ new.id <= MaxHabitId
                     /\ habit' = habit \cup {new}
                     /\ resp' = Finished("create", req,
                            IF ajax THEN jsonify([ok |-> TRUE, id |-> new.id,
                                                  name |-> name, color |-> color], 200)
                                    ELSE redirect_habits_page,
                            <<"Habit created">>, "ok", FALSE)
                  [] result = "integrity" ->
                     /\ habit' = habit
                     /\ resp' = Finished("create", req,
                            IF ajax THEN jsonify([ok |-> FALSE, error |-> "unique"], 400)
                                    ELSE redirect_habits_page,
                            <<"Habit name must be unique">>, "integrity", TRUE)
                  [] result = "error" ->
                     /\ habit' = habit
                     /\ resp' = Finished("create", req,
                            IF ajax THEN jsonify([ok |-> FALSE, error |-> "server"], 500)
                                    ELSE redirect_habits_page,
                            <<"An error occurred">>, "error", TRUE)

edit_habit(habit_id, req, fault) ==
    LET found == habit_get(habit_id)
        name == strip(form_get(request_form(req), "name", <<>>))
        color == strip(form_get(request_form(req), "color", DefaultColor))
    IN  /\ UNCHANGED <<checking, today, foreign_keys, inflight>>
        /\ IF found = {}
           THEN /\ habit' = habit
                /\ resp' = About(Finished("edit", req, not_found, <<>>, "none", FALSE), habit_id)
           ELSE IF name = <<>>
           THEN /\ habit' = habit
                /\ resp' = About(Finished("edit", req,
                       jsonify([ok |-> FALSE, error |-> "Name required"], 400),
                       <<>>, "none", FALSE), habit_id)
           ELSE LET h == CHOOSE x \in found : TRUE
                    edited == [h EXCEPT !.name = name, !.color = color]
                    updated == (habit \ {h}) \cup {edited}
                    result == commit_result(updated, checking, fault)
                IN  CASE result = "ok" ->
                         /\ habit' = updated
                         /\ resp' = About(Finished("edit", req,
                                jsonify([ok |-> TRUE, id |-> h.id, name |-> name,
                                         color |-> color], 200),
                                <<"Habit updated">>, "ok", FALSE), habit_id)
                      [] result = "integrity" ->
                         /\ habit' = habit
                         /\ resp' = About(Finished("edit", req,
                                jsonify([ok |-> FALSE, error |-> "unique"], 400),
                                <<>>, "integrity", TRUE), habit_id)
                      [] result = "error" ->
                         /\ habit' = habit
                         /\ resp' = About(Finished("edit", req,
                                jsonify([ok |-> FALSE, error |-> "server"], 500),
                                <<>>, "error", TRUE), habit_id)

delete_habit(habit_id, req, fault) ==
    LET found == habit_get(habit_id)
        ajax == wants_json(req)
    IN  /\ UNCHANGED <<today, foreign_keys, inflight>>
        /\ IF found = {}
           THEN /\ UNCHANGED <<habit, checking>>
                /\ resp' = About(Finished("delete", req, not_found, <<>>, "none", FALSE),
                               habit_id)
           ELSE LET result == commit_result(habit \ found,
                                            cascade_delete(checking, habit_id), fault)
                IN  IF result = "ok"
                    THEN /\ habit' = habit \ found
                         /\ checking' = cascade_delete(checking, habit_id)
                         /\ resp' = [Finished("delete", req,
                                IF ajax THEN jsonify([ok |-> TRUE], 200)
                                        ELSE redirect_habits_page,
                                <<"Habit deleted">>, "ok", FALSE)
                              EXCEPT !.row = [habit_id |-> habit_id],
                                     !.before = checking]
                    ELSE /\ UNCHANGED <<habit, checking>>
                         /\ resp' = About(Finished("delete", req,
                                IF ajax THEN jsonify([ok |-> FALSE], 500)
                                        ELSE redirect_habits_page,
                                <<"Failed to delete habit">>, result, TRUE), habit_id)


\* A value on the wire: one that int() / date.fromisoformat() parses to
\* value, or one on which it raises.
Parsable(v) == [parses |-> TRUE, value |-> v]
Garbage == [parses |-> FALSE, value |-> 0]

WireHabitIds == { Parsable(i) : i \in HabitIds } \cup {Garbage}
WireDates == { Parsable(d) : d \in Dates } \cup {Garbage}

TogglePayloads ==
    UNION { { f \in [ks -> WireHabitIds \cup WireDates] :
                \A k \in ks : f[k] \in (IF k = "habit_id" THEN WireHabitIds
                                                          ELSE WireDates) }
            : ks \in SUBSET {"habit_id", "date"} }

\* int(data.get('habit_id')) and date.fromisoformat(data.get('date')) raise
\* on a missing (None) or malformed value.
payload_valid(data) ==
    /\ "habit_id" \in DOMAIN data /\ data["habit_id"].parses
    /\ "date" \in DOMAIN data /\ data["date"].parses

invalid_payload ==
    Finished("toggle", JsonRequest, jsonify([ok |-> FALSE, error |-> "invalid_payload"], 400),
             <<>>, "none", FALSE)

\* Checking.query.filter_by(habit_id=hid, date=d).first()
existing_checking(hid, d) == BagIn(Row(hid, d), checking)

\* Faulty variant: the delete is by habit_id alone.
toggle_write_habit(existing, hid, d) ==
    IF existing THEN BagFilter(checking, [r \in BagToSet(checking) |-> r.habit_id # hid])
                ELSE checking (+) SetToBag({Row(hid, d)})

\* The checking table the session flushes: the found row deleted, or a new
\* row added.
toggle_write(existing, hid, d) ==
    IF existing THEN checking (-) SetToBag({Row(hid, d)})
                ELSE checking (+) SetToBag({Row(hid, d)})

\* /toggle from its delete-or-insert on: commit, then the streak of the habit.
toggle_commit(existing, hid, d, fault) ==
    LET written == toggle_write(existing, hid, d)
        result == commit_result(habit, written, fault)
        dates == { c.date : c \in BagToSet(checking_of(written, hid)) }
        streak == get_streak_from_dates(dates, today)
        previous == IF resp.op = "toggle" /\ resp.row = Row(hid, d)
                    THEN [op |-> "toggle", row |-> resp.row, r |-> resp.r,
                          before |-> resp.before]
                    ELSE NoneBefore
    IN  /\ UNCHANGED <<habit, today, foreign_keys>>
        /\ IF result = "ok"
           THEN /\ BagCardinality(written) <= MaxRows
                /\ checking' = written
                /\ resp' = [Finished("toggle", JsonRequest,
                                jsonify([ok |-> TRUE, checked |-> ~existing,
                                         streak |-> streak], 200),
                                <<>>, "ok", FALSE)
                            EXCEPT !.row = Row(hid, d), !.before = checking,
                                   !.existing = existing,
                                   !.previous = previous]
           ELSE /\ checking' = checking
                /\ resp' = [Finished("toggle", JsonRequest, unhandled, <<>>, result, FALSE)
                            EXCEPT !.row = Row(hid, d), !.before = checking,
                                   !.existing = existing,
                                   !.previous = previous]

\* One /toggle request handled with no other request in between.
toggle(data, fault) ==
    /\ \A c \in Clients : inflight[c].pc = "idle"
    /\ UNCHANGED inflight
    /\ IF ~payload_valid(data)
       THEN /\ UNCHANGED <<habit, checking, today, foreign_keys>>
            /\ resp' = invalid_payload
       ELSE toggle_commit(existing_checking(data["habit_id"].value, data["date"].value),
                          data["habit_id"].value, data["date"].value, fault)

\* /toggle handled by client c while others are in flight: first the parse
\* and the SELECT of the existing row ...
toggle_begin(c, data) ==
    /\ inflight[c].pc = "idle"
    /\ UNCHANGED <<habit, checking, today, foreign_keys>>
    /\ IF ~payload_valid(data)
       THEN /\ resp' = invalid_payload
            /\ UNCHANGED inflight
       ELSE /\ inflight' = [inflight EXCEPT ![c] =
                    [pc |-> "selected", hid |-> data["habit_id"].value,
                     d |-> data["date"].value,
                     existing |-> existing_checking(data["habit_id"].value,
                                                    data["date"].value)]]
            /\ UNCHANGED resp

\* ... then its delete or insert, commit and response.
toggle_end(c, fault) ==
    /\ inflight[c].pc = "selected"
    /\ inflight' = [inflight EXCEPT ![c] = [pc |-> "idle"]]
    /\ toggle_commit(inflight[c].existing, inflight[c].hid, inflight[c].d, fault)

\* Requests handled one after the other, all on the last day of Dates.
Next ==
    \/ \E req \in NamingRequests, fault \in BOOLEAN : create_habit(req, fault)
    \/ \E id \in HabitIds, req \in NamingRequests, fault \in BOOLEAN :
          edit_habit(id, req, fault)
    \/ \E id \in HabitIds, req \in BodilessRequests \ {JsonRequest},
            fault \in BOOLEAN :
          delete_habit(id, req, fault)
    \/ \E data \in TogglePayloads, fault \in BOOLEAN : toggle(data, fault)

Spec == Init /\ [][Next]_vars

\* The habit handlers alone, under every request of HabitRequests.
NextHabits ==
    \/ \E req \in HabitRequests, fault \in BOOLEAN : create_habit(req, fault)
    \/ \E id \in HabitIds, req \in HabitRequests, fault \in BOOLEAN :
          edit_habit(id, req, fault)
    \/ \E id \in HabitIds, req \in BodilessRequests, fault \in BOOLEAN :
          delete_habit(id, req, fault)

SpecHabits == Init /\ [][NextHabits]_vars

\* A stored habit as create_habit leaves it.
FirstHabit == [id |-> 1, name |-> <<"a">>, color |-> DefaultColor]

\* /toggle requests of one day handled at once, over no habit or one.
InitConc ==
    /\ habit \in { {}, {FirstHabit} }
    /\ checking = EmptyBag
    /\ today = Epoch + 1
    /\ foreign_keys \in BOOLEAN
    /\ inflight = [c \in Clients |-> [pc |-> "idle"]]
    /\ resp = Finished("none", JsonRequest, not_found, <<>>, "none", FALSE)

ConcPayloads ==
    { data \in TogglePayloads :
        "date" \in DOMAIN data /\ data["date"] \in {Garbage, Parsable(Epoch + 1)} }

NextConc ==
    \/ \E c \in Clients, data \in ConcPayloads : toggle_begin(c, data)
    \/ \E c \in Clients, fault \in BOOLEAN : toggle_end(c, fault)

SpecConc == InitConc /\ [][NextConc]_vars

(* ------------------------------ queries ------------------------------- *)
\* get_streak_from_dates applied to a set of dates and a reference date.
apply_get_streak_from_dates(dates_set, t) ==
    /\ resp' = [op |-> "streak", dates_set |-> dates_set, t |-> t,
                r |-> get_streak_from_dates(dates_set, t)]
    /\ UNCHANGED <<habit, checking, today, foreign_keys, inflight>>

apply_get_weekly_data_for_habit(hid, days_window) ==
    /\ resp' = [op |-> "weekly_for_habit", habit_id |-> hid,
                days_window |-> days_window,
                r |-> get_weekly_data_for_habit(hid, days_window)]
    /\ UNCHANGED <<habit, checking, today, foreign_keys, inflight>>

apply_get_weekly_data_all_habits(days_window) ==
    /\ resp' = [op |-> "weekly_all_habits", days_window |-> days_window,
                r |-> get_weekly_data_all_habits(days_window)]
    /\ UNCHANGED <<habit, checking, today, foreign_keys, inflight>>

\* The tables a run of requests can leave: no habit or one, and rows that the
\* constraints admit.
InitQuery ==
    /\ habit \in { {}, {FirstHabit} }
    /\ foreign_keys \in BOOLEAN
    /\ checking \in { SetToBag(rows) : rows \in SUBSET { Row(h, d) : h \in HabitIds,
                                                                   d \in Dates } }
    /\ BagCardinality(checking) <= MaxRows
    /\ fk_habit(checking, habit)
    /\ today \in Dates
    /\ inflight = [c \in Clients |-> [pc |-> "idle"]]
    /\ resp = Finished("none", JsonRequest, not_found, <<>>, "none", FALSE)

NextQuery ==
    \/ \E hid \in HabitIds, n \in Windows : apply_get_weekly_data_for_habit(hid, n)
    \/ \E n \in Windows : apply_get_weekly_data_all_habits(n)

\* The weekly series over the tables of InitQuery.
SpecQuery == InitQuery /\ [][NextQuery]_vars

NextStreak ==
    \E dates_set \in SUBSET StreakDates, t \in Epoch..(Epoch + MaxStreakDays + 1) :
        apply_get_streak_from_dates(dates_set, t)

\* The streak of every set of StreakDates at every date from the day before
\* them to the day after.
SpecStreak == Init /\ [][NextStreak]_vars

(* ------------------------------ properties ---------------------------- *)
Successful(response) == response.kind = "json" /\ response.status = 200

\* A step of handler op: the requests are the only steps that change a table
\* or resp, and each leaves its own name in resp.
Handled(op) ==
    resp'.op = op /\ <<habit, checking, resp>>' # <<habit, checking, resp>>

Typed(finished, key, default) == form_get(finished.form, key, default)

\* C1: two successive successful /toggle requests for the same (habit_id,
\* date) leave the checking table as it was before the first one, the second
\* reports the negation of the first's `checked`, and the first reports
\* checked:true exactly when the pair had no row.
C1_ToggleTwice ==
    (/\ resp.op = "toggle" /\ Successful(resp.r)
     /\ resp.previous.op = "toggle" /\ Successful(resp.previous.r)
     /\ resp.previous.row = resp.row)
    => /\ checking = resp.previous.before
       /\ resp.r.body.checked = ~resp.previous.r.body.checked
       /\ resp.previous.r.body.checked = ~BagIn(resp.row, resp.previous.before)

\* A row among two is toggled off and on again.
C1_Witness ==
    /\ resp.op = "toggle" /\ Successful(resp.r)
    /\ resp.previous.op = "toggle" /\ Successful(resp.previous.r)
    /\ resp.previous.row = resp.row
    /\ ~resp.previous.r.body.checked
    /\ BagCardinality(checking) = 2

\* C2: get_streak_from_dates(D, T) is 0 when T is not in D and otherwise
\* 1 + get_streak_from_dates(D, T - 1); it is 0 for the empty set and is the
\* length of the run of consecutive days of D that ends at T.
C2_StreakRecurrence ==
    resp.op = "streak" =>
        /\ resp.r = IF resp.t \notin resp.dates_set THEN 0
                    ELSE 1 + get_streak_from_dates(resp.dates_set, resp.t - 1)
        /\ resp.dates_set = {} => resp.r = 0
        /\ \A k \in 0..(resp.r - 1) : resp.t - k \in resp.dates_set
        /\ resp.t - resp.r \notin resp.dates_set

\* Checked at T and two days before, not the day before: the streak is 1.
C2_Witness ==
    /\ resp.op = "streak"
    /\ resp.t \in resp.dates_set /\ resp.t - 1 \notin resp.dates_set
    /\ resp.t - 2 \in resp.dates_set
    /\ resp.r = 1

\* C3: /habits/create with a name that, stripped, is a stored habit's name
\* fails with the uniqueness error (JSON "unique" with status 400 for a
\* programmatic request, the flashed error otherwise), rolls back and leaves
\* the stored habits as they were.
C3_DuplicateCreateFails ==
    [][(/\ Handled("create")
        /\ \E h \in habit : h.name = strip(Typed(resp', "name", <<>>)))
       => /\ habit' = habit
          /\ Cardinality(habit') = Cardinality(habit)
          /\ resp'.commit = "integrity" /\ resp'.rollback
          /\ resp'.flashes = <<"Habit name must be unique">>
          /\ resp'.r = IF resp'.is_json \/ resp'.xhr
                       THEN jsonify([ok |-> FALSE, error |-> "unique"], 400)
                       ELSE redirect_habits_page]_vars

C3_Witness ==
    /\ resp.op = "create" /\ resp.commit = "integrity"
    /\ resp.xhr /\ resp.r.status = 400
    /\ Cardinality(habit) = 1

\* C4: a successful /habits/<id>/delete of a stored habit leaves no Checking
\* row of that habit_id, however many it had, and leaves the other habits and
\* the other Checking rows as they were.
C4_DeleteCascades ==
    [][(/\ Handled("delete") /\ resp'.commit = "ok"
        /\ \E h \in habit : h.id = resp'.row.habit_id)
       => LET id == resp'.row.habit_id
          IN  /\ \A r \in BagToSet(checking') : r.habit_id # id
              /\ habit' = { h \in habit : h.id # id }
              /\ \A r \in BagToSet(checking) \cup BagToSet(checking') :
                    r.habit_id # id => CopiesIn(r, checking') = CopiesIn(r, checking)]_vars

\* A habit with a row is deleted while another habit keeps its own.
C4_Witness ==
    /\ resp.op = "delete" /\ resp.commit = "ok"
    /\ \E r \in BagToSet(resp.before) : r.habit_id = resp.row.habit_id
    /\ \E r \in BagToSet(checking) : r.habit_id \in habit_ids

\* C5: every Checking row's habit_id is the id of a stored habit.
C5_NoOrphanChecking ==
    \A r \in BagToSet(checking) : \E h \in habit : h.id = r.habit_id

\* C6: under any interleaving of /toggle requests the table holds at most one
\* Checking row per (habit_id, date).
C6_UniquePerDay ==
    \A r \in BagToSet(checking) : CopiesIn(r, checking) = 1

\* Two requests found no row for the pair; one stored it and the other's
\* insert was refused.
C6_Witness ==
    /\ resp.op = "toggle" /\ resp.commit = "integrity"
    /\ ~resp.existing
    /\ BagIn(resp.row, resp.before)
    /\ BagIn(resp.row, checking)
    /\ \E h \in habit : h.id = resp.row.habit_id

\* C7: a mutation handler whose commit fails rolls back and answers with a
\* flashed message or a JSON error, never with an unhandled failure.
C7_FailuresHandled ==
    (resp.op \in {"create", "edit", "delete", "toggle"}
        /\ resp.commit \in {"integrity", "error"})
    => /\ resp.rollback
       /\ resp.r # unhandled
       /\ \/ resp.flashes # <<>>
          \/ resp.r.kind = "json" /\ resp.r.body.ok = FALSE

ProgrammaticRequest == resp.is_json \/ resp.xhr

DualMode ==
    IF ProgrammaticRequest THEN resp.r.kind = "json"
    ELSE resp.r = redirect_habits_page /\ resp.flashes # <<>>

\* C8 as stated: create, edit and delete answer, in each of their outcomes,
\* with JSON to a programmatic request and with a redirect and a flashed
\* message to any other.
C8_DualModeEverywhere ==
    (resp.op \in {"create", "edit", "delete"} /\ resp.r # not_found) => DualMode

\* C8 amended: create (once it commits: success, duplicate name, other
\* database error) and delete answer in the dual mode; create with an empty
\* name redirects with the flashed "Name is required" whatever the request;
\* edit answers with JSON whatever the request.
C8_DualModeWhereCoded ==
    /\ (resp.op = "create" /\ resp.commit # "none") => DualMode
    /\ (resp.op = "create" /\ resp.commit = "none")
          => resp.r = redirect_habits_page /\ resp.flashes = <<"Name is required">>
    /\ (resp.op = "delete" /\ resp.r # not_found) => DualMode
    /\ (resp.op = "edit" /\ resp.r # not_found) => resp.r.kind = "json"

\* A create sent with the X-Requested-With header alone is answered in JSON.
C8_Witness ==
    /\ resp.op = "create" /\ resp.commit = "ok"
    /\ resp.xhr /\ ~resp.is_json
    /\ resp.r.kind = "json"

\* C9: the weekly series have the length of the window, run from the oldest
\* day to today, the i-th element being for day today - (N - i) (i from 1);
\* the per-habit value is 1 exactly when the habit has a Checking on the day,
\* the all-habits value is the number of distinct habit_ids checked that day.
C9_WeeklySeries ==
    /\ resp.op = "weekly_for_habit" =>
          /\ Len(resp.r.labels) = resp.days_window
          /\ Len(resp.r.data) = resp.days_window
          /\ \A i \in 1..resp.days_window :
                LET day == today - (resp.days_window - i)
                IN  /\ resp.r.labels[i] = strftime_a(day)
                    /\ resp.r.data[i] =
                          IF BagIn(Row(resp.habit_id, day), checking) THEN 1 ELSE 0
    /\ resp.op = "weekly_all_habits" =>
          /\ Len(resp.r.labels) = resp.days_window
          /\ Len(resp.r.data) = resp.days_window
          /\ \A i \in 1..resp.days_window :
                LET day == today - (resp.days_window - i)
                IN  /\ resp.r.labels[i] = strftime_a(day)
                    /\ resp.r.data[i] =
                          Cardinality({ r.habit_id : r \in
                              { x \in BagToSet(checking) : x.date = day } })

\* No habit checked yesterday, two today, over a window of two days.
C9_Witness ==
    /\ resp.op = "weekly_all_habits" /\ resp.days_window = 2
    /\ resp.r.data = <<0, 2>>

WhitespaceOnly(s) == \A i \in 1..Len(s) : s[i] = Space

NamesUniqueNonEmpty ==
    /\ \A h1, h2 \in habit : h1.name = h2.name => h1.id = h2.id
    /\ \A h \in habit : h.name # <<>>

FailingNameLeavesHabits ==
    LET typed == Typed(resp', "name", <<>>)
    IN  /\ (Handled("create") /\ WhitespaceOnly(typed)) => habit' = habit
        /\ (/\ Handled("edit")
             /\ \/ WhitespaceOnly(typed)
                \/ \E h \in habit : h.id # resp'.row.habit_id /\ h.name = strip(typed))
            => habit' = habit

\* C10: no two stored habits share a name and none has an empty name; a
\* create or edit with an empty or whitespace-only name, and an edit to
\* another habit's name, leave every stored habit as it was.
C10_NamesStayUnique ==
    [](NamesUniqueNonEmpty) /\ [][FailingNameLeavesHabits]_vars

\* An edit to the other habit's name is refused.
C10_Witness ==
    /\ resp.op = "edit" /\ resp.commit = "integrity"
    /\ Cardinality(habit) = 2

====
